---- MODULE Spec2Model ----
(***************************************************************************)
(* A model of transcribe_audio.py: one process run (import guard, main())  *)
(* and a second run of the same program on the same file system.           *)
(*                                                                         *)
(* Files are modelled by their content: the temporary clip by a tag, the   *)
(* output file by the sequence of chunks json.dump has written.  Times are *)
(* integers (hundredths of a second); word texts are sequences of          *)
(* one-character strings so that str.strip() is computed, not assumed.     *)
(* Python dicts are functions; d["k"] raises KeyError outside DOMAIN d and *)
(* d.get("k", v) yields v there.                                           *)
(***************************************************************************)
EXTENDS Integers, Sequences, FiniteSets, TLC

VARIABLES
    pc,               \* position of the process in the script
    whisperInstalled, \* does "import whisper" succeed
    inputExists,      \* os.path.exists(audio_file)
    temp,             \* temp_60sec.mp3: "absent", "stale", "partial" or "clip"
    outExists,        \* does public/transcription.json exist
    outData,          \* its content, the chunks written so far
    result,           \* local "result" of main(): what the engine returned
    json_data,        \* local "json_data" of main()
    exc,              \* the exception propagating out of the try block
    calls,            \* external calls of this run, in order, with outcomes
    console,          \* messages printed by this run
    exitStatus,       \* process exit status once pc = "exited"
    second,           \* is this the second run of the program
    startOut,         \* the output file as it was when this run started
    first             \* what the first run did, kept for the second run

vars == <<pc, whisperInstalled, inputExists, temp, outExists, outData, result,
          json_data, exc, calls, console, exitStatus, second, startOut, first>>

(***************************************************************************)
(* Bounds of the engine results enumerated for the formatter.              *)
(***************************************************************************)
MaxSegs == 2
MaxWords == 2

NoStatus == -1            \* the process has not exited yet
NoExc == [type |-> "none", msg |-> ""]

(***************************************************************************)
(* Engine results.                                                         *)
(***************************************************************************)
WS == {" ", "\n"}

w1 == [word |-> <<" ", "a">>, start |-> 0, end |-> 1]
w2 == [word |-> <<"a", " ", "b", " ">>, start |-> 1, end |-> 2]
w3 == [word |-> <<"\n", " ">>, start |-> 2, end |-> 1]
wbad == [start |-> 0, end |-> 0]

Pool == {w1, w2, w3}

SeqsUpTo(S, n) == UNION {[1..k -> S] : k \in 0..n}

Segments == {[words |-> ws] : ws \in SeqsUpTo(Pool, MaxWords)} \cup {[id |-> 0]}

AllResults ==
    {[segments |-> ss] : ss \in SeqsUpTo(Segments, MaxSegs)} \cup {[text |-> <<>>]}

SampleResults ==
    { [text |-> <<>>],
      [segments |-> << [words |-> <<w1, w2>>] >>],
      [segments |-> << [words |-> <<w3>>], [id |-> 0], [words |-> <<w1>>] >>],
      [segments |-> << [words |-> <<w1, wbad>>] >>] }

NoResult == [text |-> <<>>]

(***************************************************************************)
(* convert_to_json_format and what it uses.                                *)
(***************************************************************************)
Get(d, k, default) == IF k \in DOMAIN d THEN d[k] ELSE default

RECURSIVE lstrip(_)
lstrip(s) ==
    IF s = <<>> THEN s
    ELSE IF Head(s) \in WS THEN lstrip(Tail(s)) ELSE s

RECURSIVE rstrip(_)
rstrip(s) ==
    IF s = <<>> THEN s
    ELSE IF s[Len(s)] \in WS THEN rstrip(SubSeq(s, 1, Len(s) - 1)) ELSE s

strip_left_only(s) == lstrip(s)

strip(s) == rstrip(lstrip(s))

WordRecord(word_info) ==
    [word |-> strip(word_info["word"]),
     start |-> word_info["start"],
     end |-> word_info["end"]]

RECURSIVE AppendWords(_, _)
AppendWords(words, infos) ==
    IF infos = <<>> THEN words
    ELSE AppendWords(Append(words, WordRecord(Head(infos))), Tail(infos))

RECURSIVE AppendSegments(_, _)
AppendSegments(words, segs) ==
    IF segs = <<>> THEN words
    ELSE AppendSegments(AppendWords(words, Get(Head(segs), "words", <<>>)),
                        Tail(segs))

RECURSIVE PrependSegments(_, _)
PrependSegments(words, segs) ==
    IF segs = <<>> THEN words
    ELSE PrependSegments(AppendWords(<<>>, Get(Head(segs), "words", <<>>)) \o words,
                         Tail(segs))

convert_segments_reversed(whisper_result) ==
    [words |-> PrependSegments(<<>>, Get(whisper_result, "segments", <<>>))]

convert_to_json_format(whisper_result) ==
    [words |-> AppendSegments(<<>>, Get(whisper_result, "segments", <<>>))]

\* word_info["word"], ["start"] or ["end"] raises KeyError
ConvertRaises(whisper_result) ==
    LET segs == Get(whisper_result, "segments", <<>>) IN
    \E i \in 1..Len(segs) :
        LET infos == Get(segs[i], "words", <<>>) IN
        \E j \in 1..Len(infos) :
            ~({"word", "start", "end"} \subseteq DOMAIN infos[j])

NoJson == [words |-> <<>>]

(***************************************************************************)
(* json.dump(json_data, f, indent=2): the chunks it writes.                *)
(***************************************************************************)
NoWord == [word |-> <<>>, start |-> 0, end |-> 0]
Chunk(k, w) == [kind |-> k, w |-> w]

Serialize(data) ==
    <<Chunk("open", NoWord)>>
    \o [i \in 1..Len(data["words"]) |-> Chunk("word", data["words"][i])]
    \o <<Chunk("close", NoWord)>>

(***************************************************************************)
(* The external world: calls made and what they answered.                  *)
(***************************************************************************)
Call(op, res, n) == [op |-> op, res |-> res, n |-> n]

\* result.stderr of an ffmpeg invocation that returned nonzero
Stderr(codec) == IF codec = "copy" THEN "copy: error" ELSE "libmp3lame: error"

Raised(type, msg) == [type |-> type, msg |-> msg]

OutFile == [exists |-> outExists, data |-> outData]

(***************************************************************************)
(* Decisions of the script.                                                *)
(***************************************************************************)
InputFoundAlways(exists) == TRUE

\* line 96: os.path.exists(audio_file)
InputFound(exists) == exists

NeverReencode(res) == FALSE

\* line 41: result.returncode != 0 after the stream copy
NeedsReencode(res) == res = "nonzero"

ReencodeNeverFails(res) == FALSE

\* line 53: result.returncode != 0 after the re-encode
ReencodeFailed(res) == res = "nonzero"

FfmpegErrorFirst(stderrCopy, stderrEncode) == Raised("Exception", stderrCopy)

\* line 54: the message is built from the rebound "result"
FfmpegError(stderrCopy, stderrEncode) == Raised("Exception", stderrEncode)

OpenedAppend(data) == data

\* line 117: open(output_json, 'w') truncates
Opened(data) == <<>>

ContinueFormatFirst(p) ==
    CASE p = "copy" -> "format"
      [] p = "reencode" -> "format"
      [] p = "format" -> "load"
      [] p = "load" -> "transcribe"
      [] p = "transcribe" -> "open"
      [] p = "open" -> "dump"
      [] p = "dump" -> "report"
      [] p = "report" -> "cleanup"

\* lines 105-126: the statement that follows a completed one in the try block
Continue(p) ==
    CASE p = "copy" -> "load"
      [] p = "reencode" -> "load"
      [] p = "load" -> "transcribe"
      [] p = "transcribe" -> "format"
      [] p = "format" -> "open"
      [] p = "open" -> "dump"
      [] p = "dump" -> "report"
      [] p = "report" -> "cleanup"

CleanedOnSuccessOnly(t, e) == IF e = NoExc THEN "absent" ELSE t

\* lines 127-130: remove the clip if it exists, whatever happened
Cleaned(t, e) == "absent"

ExitStatusZero(e) == 0

\* an exception leaving main() ends the interpreter with status 1
ExitStatus(e) == IF e = NoExc THEN 0 ELSE 1

(***************************************************************************)
(* Initial state: a fresh process on some file system.                     *)
(***************************************************************************)
OldOutput == <<Chunk("open", NoWord), Chunk("word", w2), Chunk("close", NoWord)>>

NoFirst == [done |-> FALSE, calls |-> <<>>, result |-> NoResult,
            out |-> [exists |-> FALSE, data |-> <<>>]]

Fresh ==
    /\ pc = "import"
    /\ result = NoResult
    /\ json_data = NoJson
    /\ exc = NoExc
    /\ calls = <<>>
    /\ console = <<>>
    /\ exitStatus = NoStatus

Init ==
    /\ Fresh
    /\ whisperInstalled \in BOOLEAN
    /\ inputExists \in BOOLEAN
    /\ temp \in {"absent", "stale"}
    /\ \/ outExists = FALSE /\ outData = <<>>
       \/ outExists = TRUE /\ outData = OldOutput
    /\ second = FALSE
    /\ startOut = OutFile
    /\ first = NoFirst

(***************************************************************************)
(* Steps.                                                                  *)
(***************************************************************************)
env == <<whisperInstalled, inputExists>>
run == <<second, startOut, first>>
out == <<outExists, outData>>

\* lines 12-18
ImportGuard ==
    /\ pc = "import"
    /\ IF whisperInstalled
       THEN /\ pc' = "check"
            /\ UNCHANGED <<console, exitStatus>>
       ELSE /\ pc' = "exited"
            /\ console' = Append(console, "ERROR: Whisper not installed")
            /\ exitStatus' = 1
    /\ UNCHANGED <<env, temp, out, result, json_data, exc, calls, run>>

\* lines 92-103
CheckInput ==
    /\ pc = "check"
    /\ IF InputFound(inputExists)
       THEN /\ pc' = "copy"
            /\ UNCHANGED <<console, exitStatus>>
       ELSE /\ pc' = "exited"
            /\ console' = Append(console, "ERROR: Audio file not found")
            /\ exitStatus' = 1
    /\ UNCHANGED <<env, temp, out, result, json_data, exc, calls, run>>

\* what an ffmpeg -y invocation may do to the destination
FfmpegEffect(res, t) ==
    CASE res = "zero" -> {"clip"}
      [] res = "nonzero" -> {t, "partial"}
      [] res = "oserror" -> {t}

\* lines 27-41 and 56-57: the stream-copy invocation
RunCopy ==
    /\ pc = "copy"
    /\ \E res \in {"zero", "nonzero", "oserror"} :
         /\ calls' = Append(calls, Call("ffmpeg copy", res, 0))
         /\ temp' \in FfmpegEffect(res, temp)
         /\ IF res = "oserror"
            THEN /\ exc' = Raised("OSError", "ffmpeg")
                 /\ pc' = "cleanup"
                 /\ UNCHANGED console
            ELSE IF NeedsReencode(res)
            THEN /\ pc' = "reencode"
                 /\ console' = Append(console, "Codec copy failed, re-encoding...")
                 /\ UNCHANGED exc
            ELSE /\ pc' = Continue("copy")
                 /\ console' = Append(console, "Saved to: temp_60sec.mp3")
                 /\ UNCHANGED exc
    /\ UNCHANGED <<env, out, result, json_data, exitStatus, run>>

\* lines 44-57: the re-encode invocation
RunReencode ==
    /\ pc = "reencode"
    /\ \E res \in {"zero", "nonzero", "oserror"} :
         /\ calls' = Append(calls, Call("ffmpeg libmp3lame", res, 0))
         /\ temp' \in FfmpegEffect(res, temp)
         /\ IF res = "oserror"
            THEN /\ exc' = Raised("OSError", "ffmpeg")
                 /\ pc' = "cleanup"
                 /\ UNCHANGED console
            ELSE IF ReencodeFailed(res)
            THEN /\ exc' = FfmpegError(Stderr("copy"), Stderr("libmp3lame"))
                 /\ pc' = "cleanup"
                 /\ UNCHANGED console
            ELSE /\ pc' = Continue("reencode")
                 /\ console' = Append(console, "Saved to: temp_60sec.mp3")
                 /\ UNCHANGED exc
    /\ UNCHANGED <<env, out, result, json_data, exitStatus, run>>

\* lines 62-63
LoadModel ==
    /\ pc = "load"
    /\ \E res \in {"ok", "raise"} :
         /\ calls' = Append(calls, Call("load_model", res, 0))
         /\ IF res = "ok"
            THEN pc' = Continue("load") /\ UNCHANGED exc
            ELSE pc' = "cleanup" /\ exc' = Raised("EngineError", "load_model")
    /\ UNCHANGED <<env, temp, out, result, json_data, console, exitStatus, run>>

\* lines 65-74 and 110
Transcribe ==
    /\ pc = "transcribe"
    /\ \/ /\ calls' = Append(calls, Call("transcribe", "raise", 0))
          /\ pc' = "cleanup"
          /\ exc' = Raised("EngineError", "transcribe")
          /\ UNCHANGED result
       \/ /\ calls' = Append(calls, Call("transcribe", "ok", 0))
          /\ result' \in SampleResults
          /\ pc' = Continue("transcribe")
          /\ UNCHANGED exc
    /\ UNCHANGED <<env, temp, out, json_data, console, exitStatus, run>>

\* line 113
Format ==
    /\ pc = "format"
    /\ IF ConvertRaises(result)
       THEN /\ pc' = "cleanup"
            /\ exc' = Raised("KeyError", "word_info")
            /\ UNCHANGED json_data
       ELSE /\ json_data' = convert_to_json_format(result)
            /\ pc' = Continue("format")
            /\ UNCHANGED exc
    /\ UNCHANGED <<env, temp, out, result, calls, console, exitStatus, run>>

\* lines 116-117: open(output_json, 'w')
OpenOutput ==
    /\ pc = "open"
    /\ \E res \in {"ok", "raise"} :
         /\ calls' = Append(calls, Call("open", res, 0))
         /\ IF res = "ok"
            THEN /\ outExists' = TRUE
                 /\ outData' = Opened(outData)
                 /\ pc' = Continue("open")
                 /\ UNCHANGED exc
            ELSE /\ pc' = "cleanup"
                 /\ exc' = Raised("OSError", "open")
                 /\ UNCHANGED out
    /\ console' = Append(console, "Saving transcription to: public/transcription.json")
    /\ UNCHANGED <<env, temp, result, json_data, exitStatus, run>>

\* line 118: json.dump writes the chunks one after another; the with block
\* closes the file whether or not a write raised
DumpJson ==
    /\ pc = "dump"
    /\ LET text == Serialize(json_data) IN
       \E n \in 0..Len(text) :
         /\ outData' = outData \o SubSeq(text, 1, n)
         /\ IF n = Len(text)
            THEN /\ calls' = Append(calls, Call("dump", "ok", n))
                 /\ pc' = Continue("dump")
                 /\ UNCHANGED exc
            ELSE /\ calls' = Append(calls, Call("dump", "raise", n))
                 /\ pc' = "cleanup"
                 /\ exc' = Raised("OSError", "write")
    /\ UNCHANGED <<env, temp, outExists, result, json_data, console, exitStatus, run>>

\* lines 120-125: the summary; its prints carry non-ASCII text and format
\* the engine's times, so they can raise
Report ==
    /\ pc = "report"
    /\ \/ /\ console' = Append(console, "Success! Transcribed")
          /\ pc' = Continue("report")
          /\ UNCHANGED exc
       \/ /\ pc' = "cleanup"
          /\ exc' = Raised("UnicodeEncodeError", "print")
          /\ UNCHANGED console
    /\ UNCHANGED <<env, temp, out, result, json_data, calls, exitStatus, run>>

\* lines 127-131, then the interpreter exits
Cleanup ==
    /\ pc = "cleanup"
    /\ IF temp # "absent"
       THEN /\ temp' = Cleaned(temp, exc)
            /\ calls' = Append(calls, Call("remove", "ok", 0))
            /\ \/ /\ console' = Append(console, "Cleaned up temporary file")
                  /\ UNCHANGED exc
               \/ /\ exc' = Raised("UnicodeEncodeError", "print")
                  /\ UNCHANGED console
       ELSE UNCHANGED <<temp, calls, console, exc>>
    /\ pc' = "exited"
    /\ exitStatus' = ExitStatus(exc')
    /\ UNCHANGED <<env, out, result, json_data, run>>

\* the operator starts the program again on the same input
SecondRun ==
    /\ pc = "exited"
    /\ second = FALSE
    /\ second' = TRUE
    /\ first' = [done |-> TRUE, calls |-> calls, result |-> result, out |-> OutFile]
    /\ startOut' = OutFile
    /\ pc' = "import"
    /\ result' = NoResult
    /\ json_data' = NoJson
    /\ exc' = NoExc
    /\ calls' = <<>>
    /\ console' = <<>>
    /\ exitStatus' = NoStatus
    /\ UNCHANGED <<env, temp, out>>

Next ==
    \/ ImportGuard
    \/ CheckInput
    \/ RunCopy
    \/ RunReencode
    \/ LoadModel
    \/ Transcribe
    \/ Format
    \/ OpenOutput
    \/ DumpJson
    \/ Report
    \/ Cleanup
    \/ SecondRun

Spec == Init /\ [][Next]_vars

TypeOK ==
    /\ pc \in {"import", "check", "copy", "reencode", "load", "transcribe",
               "format", "open", "dump", "report", "cleanup", "exited"}
    /\ temp \in {"absent", "stale", "partial", "clip"}
    /\ exitStatus \in {NoStatus, 0, 1}

(***************************************************************************)
(* The formatter on every bounded engine result: the process right after   *)
(* a successful transcription, followed up to the write of the output.     *)
(***************************************************************************)
InitFmt ==
    /\ pc = "format"
    /\ whisperInstalled = TRUE
    /\ inputExists = TRUE
    /\ temp = "clip"
    /\ outExists = TRUE
    /\ outData = OldOutput
    /\ result \in AllResults
    /\ json_data = NoJson
    /\ exc = NoExc
    /\ calls = <<Call("ffmpeg copy", "zero", 0), Call("load_model", "ok", 0),
                 Call("transcribe", "ok", 0)>>
    /\ console = <<"Saved to: temp_60sec.mp3">>
    /\ exitStatus = NoStatus
    /\ second = FALSE
    /\ startOut = OutFile
    /\ first = NoFirst

NextFmt ==
    \/ Format
    \/ OpenOutput
    \/ DumpJson

SpecFmt == InitFmt /\ [][NextFmt]_vars

(***************************************************************************)
(* Vocabulary of the properties.                                           *)
(***************************************************************************)
Range(f) == {f[i] : i \in DOMAIN f}

Called(op) == \E i \in 1..Len(calls) : calls[i].op = op
Answered(op, res) == \E i \in 1..Len(calls) : calls[i].op = op /\ calls[i].res = res
Count(op) == Cardinality({i \in 1..Len(calls) : calls[i].op = op})
Printed(msg) == msg \in Range(console)

Exited == pc = "exited"
PastInputCheck == whisperInstalled /\ inputExists
BothNonzero ==
    Answered("ffmpeg copy", "nonzero") /\ Answered("ffmpeg libmp3lame", "nonzero")
SomeZero ==
    Answered("ffmpeg copy", "zero") \/ Answered("ffmpeg libmp3lame", "zero")
ExtractionFailed ==
    \/ BothNonzero
    \/ Answered("ffmpeg copy", "oserror")
    \/ Answered("ffmpeg libmp3lame", "oserror")
TranscriptionFailed ==
    Answered("load_model", "raise") \/ Answered("transcribe", "raise")
CompleteOutput == [exists |-> TRUE, data |-> Serialize(json_data)]
Written == Answered("dump", "ok")

\* the words of a completely written output file
WrittenWords == [k \in 1..(Len(outData) - 2) |-> outData[k + 1].w]

SegsOf(r) == Get(r, "segments", <<>>)
WordsOf(r, i) == Get(SegsOf(r)[i], "words", <<>>)

RECURSIVE WordsBefore(_, _)
WordsBefore(r, i) ==
    IF i <= 1 THEN 0 ELSE WordsBefore(r, i - 1) + Len(WordsOf(r, i - 1))

\* t is s without its leading and trailing whitespace
IsStripped(t, s) ==
    \E a \in 1..(Len(s) + 1) : \E b \in (a - 1)..Len(s) :
        /\ t = SubSeq(s, a, b)
        /\ \A k \in 1..(a - 1) : s[k] \in WS
        /\ \A k \in (b + 1)..Len(s) : s[k] \in WS
        /\ t # <<>> => t[1] \notin WS /\ t[Len(t)] \notin WS

WellFormed(r) ==
    \A i \in 1..Len(SegsOf(r)) : \A j \in 1..Len(WordsOf(r, i)) :
        DOMAIN WordsOf(r, i)[j] = {"word", "start", "end"}

\* start <= end for every word, starts non-decreasing in sequence order
Ordered(ws) ==
    /\ \A k \in 1..Len(ws) : ws[k].start <= ws[k].end
    /\ \A k \in 1..Len(ws) : \A l \in k..Len(ws) : ws[k].start <= ws[l].start

\* the same of the engine's words, in segment order then word order
EngineOrdered(r) ==
    /\ WellFormed(r)
    /\ \A i \in 1..Len(SegsOf(r)) : \A j \in 1..Len(WordsOf(r, i)) :
         /\ WordsOf(r, i)[j].start <= WordsOf(r, i)[j].end
         /\ \A i2 \in i..Len(SegsOf(r)) : \A j2 \in 1..Len(WordsOf(r, i2)) :
              (i2 > i \/ j2 >= j) =>
                  WordsOf(r, i)[j].start <= WordsOf(r, i2)[j2].start

Stage(p, status) ==
    CASE p \in {"import", "check"} -> "Start"
      [] p \in {"copy", "reencode"} -> "Extracting"
      [] p \in {"load", "transcribe"} -> "Transcribing"
      [] p = "format" -> "Formatting"
      [] p \in {"open", "dump", "report"} -> "Writing"
      [] p = "cleanup" -> "Cleaning Up"
      [] p = "exited" -> IF status = 0 THEN "Done" ELSE "Failed"

Rank(st) ==
    CASE st = "Start" -> 0
      [] st = "Extracting" -> 1
      [] st = "Transcribing" -> 2
      [] st = "Formatting" -> 3
      [] st = "Writing" -> 4
      [] st = "Cleaning Up" -> 5
      [] st \in {"Done", "Failed"} -> 6

(***************************************************************************)
(* C1.  A run that got past the input check ends with temp_60sec.mp3       *)
(* absent, whichever stages succeeded or failed.                           *)
(***************************************************************************)
C1_TempFileGone == (Exited /\ PastInputCheck) => temp = "absent"

C1_Witness ==
    /\ Exited /\ PastInputCheck
    /\ Answered("transcribe", "raise")
    /\ Called("remove")
    /\ temp = "absent"

(***************************************************************************)
(* C2.  At the end of a run the output file holds the complete Transcript  *)
(* of this run or is exactly as it was when the run started.               *)
(***************************************************************************)
C2_AllOrNothing == Exited => (OutFile = CompleteOutput \/ OutFile = startOut)

(***************************************************************************)
(* C3.  With the input file absent the run invokes no external tool,       *)
(* leaves the output file alone, reports the missing input and exits       *)
(* nonzero.                                                                *)
(***************************************************************************)
C3_MissingInput ==
    (whisperInstalled /\ ~inputExists) =>
        /\ calls = <<>>
        /\ OutFile = startOut
        /\ pc \in {"import", "check", "exited"}
        /\ Exited => /\ Printed("ERROR: Audio file not found")
                     /\ exitStatus \notin {0, NoStatus}

C3_Witness ==
    /\ Exited /\ whisperInstalled /\ ~inputExists
    /\ Printed("ERROR: Audio file not found")
    /\ startOut.exists

(***************************************************************************)
(* C4.  When both ffmpeg invocations return nonzero, the model is never    *)
(* loaded or run, the output file stays as it was, and the clip file is    *)
(* gone when the run ends.                                                 *)
(***************************************************************************)
C4_ExtractionFailure ==
    BothNonzero =>
        /\ ~Called("load_model") /\ ~Called("transcribe")
        /\ ~Called("open") /\ ~Called("dump")
        /\ OutFile = startOut
        /\ pc \in {"cleanup", "exited"}
        /\ Exited => temp = "absent"

C4_Witness ==
    /\ Exited /\ BothNonzero
    /\ Called("remove")
    /\ startOut.exists
    /\ temp = "absent"

(***************************************************************************)
(* C5.  convert_to_json_format yields one record per engine word, in       *)
(* segment order then word order, the text stripped of surrounding         *)
(* whitespace and start/end unchanged; missing keys and empty lists        *)
(* contribute nothing and raise nothing.                                   *)
(***************************************************************************)
C5_Flatten ==
    (pc # "format" /\ WellFormed(result)) =>
        LET words == json_data["words"] IN
        /\ exc.type # "KeyError"
        /\ Len(words) = WordsBefore(result, Len(SegsOf(result)) + 1)
        /\ \A i \in 1..Len(SegsOf(result)) : \A j \in 1..Len(WordsOf(result, i)) :
             LET o == words[WordsBefore(result, i) + j]
                 w == WordsOf(result, i)[j]
             IN /\ DOMAIN o = {"word", "start", "end"}
                /\ IsStripped(o.word, w.word)
                /\ o.start = w.start
                /\ o.end = w.end

C5_Witness ==
    /\ pc = "open"
    /\ result = [segments |-> << [words |-> <<>>], [words |-> <<w2, w1>>] >>]
    /\ json_data["words"][1].word = <<"a", " ", "b">>

(***************************************************************************)
(* C6 as stated.  The exit status is nonzero exactly when the dependency   *)
(* is missing, the input is absent, or extraction or transcription failed; *)
(* a zero exit comes only after the output file has been written.          *)
(***************************************************************************)
C6_AsStated ==
    Exited =>
        /\ exitStatus # 0 <=>
             (~whisperInstalled \/ ~inputExists \/ ExtractionFailed \/ TranscriptionFailed)
        /\ exitStatus = 0 => (Written /\ OutFile = CompleteOutput)

(***************************************************************************)
(* C6 amended.  The exit status is nonzero when the dependency is missing, *)
(* the input is absent, or any step of the run raises (extraction,         *)
(* transcription, formatting, opening or writing the output, the summary,  *)
(* the cleanup message), past the input check only after cleanup; it is    *)
(* zero exactly when every step succeeded, and then the output file holds  *)
(* the complete Transcript.                                                *)
(***************************************************************************)
AllStepsSucceeded ==
    /\ Written
    /\ Printed("Success! Transcribed")
    /\ Called("remove") => Printed("Cleaned up temporary file")

C6_ExitStatus ==
    Exited =>
        /\ exitStatus \in {0, 1}
        /\ exitStatus = 0 <=> AllStepsSucceeded
        /\ (~whisperInstalled \/ ~inputExists \/ ExtractionFailed \/ TranscriptionFailed)
              => exitStatus # 0
        /\ exitStatus = 0 => (PastInputCheck /\ OutFile = CompleteOutput)
        /\ PastInputCheck => temp = "absent"

C6_Witness ==
    /\ Exited
    /\ exitStatus = 1
    /\ Answered("dump", "raise")
    /\ ~ExtractionFailed /\ ~TranscriptionFailed

(***************************************************************************)
(* C7.  A second run in which the tools, the engine and the file system    *)
(* answer as they did in the first leaves the output file as the first run *)
(* left it: the content is replaced, never appended to.                    *)
(***************************************************************************)
C7_Idempotent ==
    (Exited /\ second /\ calls = first.calls /\ result = first.result)
        => OutFile = first.out

C7_Witness ==
    /\ Exited /\ second
    /\ calls = first.calls /\ result = first.result
    /\ exitStatus = 0
    /\ startOut = first.out
    /\ Len(outData) = 4

(***************************************************************************)
(* C8 as stated.  Every written Transcript has start <= end for every word *)
(* and non-decreasing starts.                                              *)
(***************************************************************************)
C8_AsStated == Written => Ordered(WrittenWords)

(***************************************************************************)
(* C8 amended.  The program writes the engine's timings unchanged and in   *)
(* the engine's order: when the engine's words have start <= end and       *)
(* non-decreasing starts in segment-then-word order, so has the written    *)
(* Transcript.                                                             *)
(***************************************************************************)
C8_OrderPreserved == (Written /\ EngineOrdered(result)) => Ordered(WrittenWords)

C8_Witness ==
    /\ Written
    /\ result = [segments |-> << [words |-> <<w1>>], [words |-> <<w2>>] >>]
    /\ Len(WrittenWords) = 2

(***************************************************************************)
(* C9.  Within a run the stages follow Start, Extracting, Transcribing,    *)
(* Formatting, Writing, Cleaning Up, Done: a stage is entered only from    *)
(* its predecessor and without a pending failure, never twice, and a       *)
(* failure leads to Cleaning Up and then Failed.                           *)
(***************************************************************************)
StageStep ==
    LET a == Stage(pc, exitStatus)
        b == Stage(pc', exitStatus')
    IN  \/ a = b /\ exc' = NoExc
        \/ Rank(b) = Rank(a) + 1 /\ b \notin {"Done", "Failed"} /\ exc' = NoExc
        \/ a \in {"Extracting", "Transcribing", "Formatting", "Writing"}
             /\ b = "Cleaning Up" /\ exc' # NoExc
        \/ a = "Cleaning Up" /\ b = "Done" /\ exc = NoExc
        \/ a = "Cleaning Up" /\ b = "Failed"
        \/ a = "Start" /\ b = "Failed" /\ calls' = <<>>

StageInv ==
    /\ (Called("load_model") \/ Called("transcribe")) => SomeZero
    /\ Called("transcribe") => Answered("load_model", "ok")
    /\ Called("open") =>
         (Answered("transcribe", "ok") /\ WellFormed(result)
            /\ json_data = convert_to_json_format(result))
    /\ Called("dump") => Answered("open", "ok")
    /\ exc # NoExc => pc \in {"cleanup", "exited"}

C9_StageOrder == [](StageInv) /\ [][second' = second => StageStep]_vars

C9_Witness ==
    /\ Exited
    /\ exitStatus = 1
    /\ Answered("transcribe", "raise")
    /\ ~Called("open")

(***************************************************************************)
(* C10.  One call of extract_first_60_seconds invokes ffmpeg at most       *)
(* twice, the re-encode exactly when the stream copy returned nonzero; it  *)
(* returns when an invocation returned zero and raises the ffmpeg error    *)
(* with the second invocation's stderr exactly when both returned nonzero. *)
(* No other call is made more than once in a run.                          *)
(***************************************************************************)
ExtractOver == Called("ffmpeg copy") /\ pc # "reencode"

C10_Fallback ==
    /\ Count("ffmpeg copy") <= 1 /\ Count("ffmpeg libmp3lame") <= 1
    /\ Called("ffmpeg libmp3lame") => Answered("ffmpeg copy", "nonzero")
    /\ (Answered("ffmpeg copy", "nonzero") /\ pc # "reencode")
          => Called("ffmpeg libmp3lame")
    /\ ExtractOver =>
         /\ Printed("Saved to: temp_60sec.mp3") <=> SomeZero
         /\ (pc # "cleanup" /\ ~Exited) => SomeZero
         /\ pc = "cleanup" =>
              (exc = Raised("Exception", Stderr("libmp3lame")) <=> BothNonzero)
    /\ \A op \in {"load_model", "transcribe", "open", "dump", "remove"} :
         Count(op) <= 1

C10_Witness ==
    /\ pc = "cleanup"
    /\ BothNonzero
    /\ exc = Raised("Exception", "libmp3lame: error")

====
